---- MODULE Spec2Model ----
\* A model of ROW (src/src/buffer/out/Row.hpp): the text of one screen-buffer
\* row (_data), the per-code-unit column widths (_cwid, a run-length map) and
\* the right-edge watermark (_maxc), with the column lookup _indicesForCol and
\* the damage-aware write WriteGlyphAtMeasured.
EXTENDS Integers, Sequences, FiniteSets, TLC

\* ---------------------------------------------------------------- bounds
\* _rowWidth of the row under test.
Width == 4
\* Largest column count (ncols) a caller passes.
MaxNcols == 3
\* SpecArgs only: a call is started only while _data is at most this long.
MaxDataLen == 4

\* The most runs a width map under lookup has.
MaxRuns == 3

\* ---------------------------------------------------------------- text
\* UNICODE_SPACE, the padding code unit (Row.hpp:217).
UNICODE_SPACE == " "

\* The glyphs callers write: a space, a letter, and the letter followed by
\* one and by two combining marks.
Glyphs == {<<UNICODE_SPACE>>, <<"a">>, <<"a", "m">>, <<"a", "m", "m">>}

Min(a, b) == IF a < b THEN a ELSE b
Max(a, b) == IF a > b THEN a ELSE b

\* gsl::narrow_cast<uint8_t> and gsl::narrow_cast<uint16_t>.
NarrowU8(n) == n % 256
NarrowU16(n) == n % 65536

\* std::wstring::replace(pos, count, str) with a 0-based pos <= size():
\* count is clipped to the end of the string.
StrReplace(s, pos, count, str) ==
    LET n == Min(count, Len(s) - pos)
    IN SubSeq(s, 1, pos) \o str \o SubSeq(s, pos + n + 1, Len(s))

\* std::wstring(n, ch).
Fill(n, ch) == [i \in 1..n |-> ch]

\* ---------------------------------------------------------------- run-length map
\* til::small_rle<uint8_t, uint16_t, 3>: a sequence of runs [value, length].
Run(v, l) == [value |-> v, length |-> l]

\* size(): the total of the runs' lengths.
RECURSIVE RleSize(_)
RleSize(runs) ==
    IF runs = <<>> THEN 0 ELSE Head(runs).length + RleSize(Tail(runs))

\* The runs covering the first n code units.
RECURSIVE RleHead(_, _)
RleHead(runs, n) ==
    IF n <= 0 \/ runs = <<>> THEN <<>>
    ELSE IF Head(runs).length <= n
         THEN <<Head(runs)>> \o RleHead(Tail(runs), n - Head(runs).length)
         ELSE <<Run(Head(runs).value, n)>>

\* The runs left after dropping the first n code units.
RECURSIVE RleTail(_, _)
RleTail(runs, n) ==
    IF runs = <<>> THEN <<>>
    ELSE IF n <= 0 THEN runs
    ELSE IF Head(runs).length <= n
         THEN RleTail(Tail(runs), n - Head(runs).length)
         ELSE <<Run(Head(runs).value, Head(runs).length - n)>> \o Tail(runs)

\* Merging of adjacent runs of equal value.
RECURSIVE Coalesce(_)
Coalesce(runs) ==
    IF Len(runs) <= 1 THEN runs
    ELSE IF runs[1].value = runs[2].value
         THEN Coalesce(<<Run(runs[1].value, runs[1].length + runs[2].length)>>
                       \o SubSeq(runs, 3, Len(runs)))
         ELSE <<runs[1]>> \o Coalesce(Tail(runs))

\* replace(begin, end, newRuns): the code units [begin, end) are replaced by
\* newRuns, and equal-valued neighbours are merged.
RleReplace(runs, begin, end, newRuns) ==
    Coalesce(RleHead(runs, begin) \o newRuns \o RleTail(runs, end))

\* resize_trailing_extent(newSize): the last run is extended, or the runs are
\* truncated, so that size() = newSize.
ResizeTrailingExtent(runs, newSize) ==
    LET size == RleSize(runs)
    IN IF newSize < size THEN RleHead(runs, newSize)
       ELSE IF newSize > size /\ runs # <<>>
            THEN SubSeq(runs, 1, Len(runs) - 1)
                 \o <<Run(runs[Len(runs)].value,
                          runs[Len(runs)].length + (newSize - size))>>
       ELSE runs

\* The column value of every code unit.
RECURSIVE Flat(_)
Flat(runs) ==
    IF runs = <<>> THEN <<>>
    ELSE [i \in 1..Head(runs).length |-> Head(runs).value] \o Flat(Tail(runs))

\* The sum of the column values of all code units.
RECURSIVE TotalColumns(_)
TotalColumns(runs) ==
    IF runs = <<>> THEN 0
    ELSE Head(runs).value * Head(runs).length + TotalColumns(Tail(runs))

\* ---------------------------------------------------------------- state
VARIABLES
    data,   \* _data: the row's code units
    cwid,   \* _cwid: runs of columns-per-code-unit
    maxc,   \* _maxc: the watermark MeasureRight() returns
    attrRow,           \* _attrRow: the attributes, one per column
    lineRendition,     \* _lineRendition
    rowWidth,          \* _rowWidth
    wrapForced,        \* _wrapForced
    doubleBytePadded,  \* _doubleBytePadded
    pre,    \* the row as it was when the last call started
    call,   \* the last call: its arguments, locals and return value
    pc,     \* "idle", or the position of the running call
    inputMode,           \* the console's input mode
    outputMode,          \* the console's output mode
    inputCP,             \* the console's input code page
    outputCP,            \* the console's output code page
    previousInputMode,   \* wmain's locals of these names
    previousOutputMode,
    previousInputCP,
    previousOutputCP,
    exitCode,
    thrown, \* the wil::ResultException run() threw, if any
    tpc,    \* vtpipeterm's position, "off" while it is not running
    batch   \* the last pass of run()'s event loop: what it read and wrote

\* The members of ROW other than _data, _cwid and _maxc.
others == <<attrRow, lineRendition, rowWidth, wrapForced, doubleBytePadded>>

\* The row and the call made on it.
rowVars == <<data, cwid, maxc, others, pre, call, pc>>

\* The console and the vtpipeterm process.
term == <<inputMode, outputMode, inputCP, outputCP,
          previousInputMode, previousOutputMode, previousInputCP, previousOutputCP,
          exitCode, thrown, tpc, batch>>

vars == <<rowVars, term>>

\* ---------------------------------------------------------------- lookup
\* The while loop of _indicesForCol: the run index, column and code unit
\* at which the walk stops.
RECURSIVE Walk(_, _, _, _, _)
Walk(runs, it, currentCol, currentWchar, col) ==
    IF it > Len(runs) THEN [it |-> it, currentCol |-> currentCol, currentWchar |-> currentWchar]
    ELSE LET colsCoveredByRun == runs[it].value * runs[it].length
         IN IF currentCol + colsCoveredByRun > col
            THEN [it |-> it, currentCol |-> currentCol, currentWchar |-> currentWchar]
            ELSE Walk(runs, it + 1, currentCol + colsCoveredByRun,
                      currentWchar + runs[it].length, col)

\* _indicesForCol with the code-unit offset advanced by one per column
\* left in the run, the run's value not divided out.
IndicesForColPerColumn(d, runs, col) ==
    LET w == Walk(runs, 1, 0, 0, col)
        it == w.it
    IN IF it > Len(runs)
       THEN [dataOffset |-> w.currentWchar,
             dataLength |-> Len(d) - w.currentWchar,
             columnOffsetWithinGlyph |-> 0,
             numberOfColumns |-> 0]
       ELSE LET colsLeftToCountInCurrentRun == col - w.currentCol
                currentWchar == w.currentWchar + colsLeftToCountInCurrentRun
                colsConsumedFromRun == colsLeftToCountInCurrentRun + runs[it].value
                colsCoveredByRun == runs[it].value * runs[it].length
                lenInWchars ==
                    IF colsConsumedFromRun >= colsCoveredByRun
                       /\ it + 1 <= Len(runs) /\ runs[it + 1].value = 0
                    THEN 1 + runs[it + 1].length
                    ELSE 1
            IN [dataOffset |-> currentWchar,
                dataLength |-> lenInWchars,
                columnOffsetWithinGlyph |->
                    NarrowU8(colsLeftToCountInCurrentRun % runs[it].value),
                numberOfColumns |-> runs[it].value]

\* _indicesForCol taking a following run of zeros as the trailers of the
\* glyph hit, wherever in its run that glyph lies.
IndicesForColAnyGlyph(d, runs, col) ==
    LET w == Walk(runs, 1, 0, 0, col)
        it == w.it
    IN IF it > Len(runs)
       THEN [dataOffset |-> w.currentWchar,
             dataLength |-> Len(d) - w.currentWchar,
             columnOffsetWithinGlyph |-> 0,
             numberOfColumns |-> 0]
       ELSE LET colsLeftToCountInCurrentRun == col - w.currentCol
                currentWchar == w.currentWchar
                                + (colsLeftToCountInCurrentRun \div runs[it].value)
                lenInWchars ==
                    IF it + 1 <= Len(runs) /\ runs[it + 1].value = 0
                    THEN 1 + runs[it + 1].length
                    ELSE 1
            IN [dataOffset |-> currentWchar,
                dataLength |-> lenInWchars,
                columnOffsetWithinGlyph |->
                    NarrowU8(colsLeftToCountInCurrentRun % runs[it].value),
                numberOfColumns |-> runs[it].value]

\* _indicesForCol returning the code unit hit alone, no trailers added.
IndicesForColOneUnit(d, runs, col) ==
    LET w == Walk(runs, 1, 0, 0, col)
        it == w.it
    IN IF it > Len(runs)
       THEN [dataOffset |-> w.currentWchar,
             dataLength |-> Len(d) - w.currentWchar,
             columnOffsetWithinGlyph |-> 0,
             numberOfColumns |-> 0]
       ELSE LET colsLeftToCountInCurrentRun == col - w.currentCol
                currentWchar == w.currentWchar
                                + (colsLeftToCountInCurrentRun \div runs[it].value)
            IN [dataOffset |-> currentWchar,
                dataLength |-> 1,
                columnOffsetWithinGlyph |->
                    NarrowU8(colsLeftToCountInCurrentRun % runs[it].value),
                numberOfColumns |-> runs[it].value]

\* ROW::_indicesForCol(col) on a row with text d and widths runs.
IndicesForCol(d, runs, col) ==
    LET w == Walk(runs, 1, 0, 0, col)
        it == w.it
    IN IF it > Len(runs)
       THEN [dataOffset |-> w.currentWchar,
             dataLength |-> Len(d) - w.currentWchar,
             columnOffsetWithinGlyph |-> 0,
             numberOfColumns |-> 0]
       ELSE LET colsLeftToCountInCurrentRun == col - w.currentCol
                currentWchar == w.currentWchar
                                + (colsLeftToCountInCurrentRun \div runs[it].value)
                colsConsumedFromRun == colsLeftToCountInCurrentRun + runs[it].value
                colsCoveredByRun == runs[it].value * runs[it].length
                lenInWchars ==
                    IF colsConsumedFromRun >= colsCoveredByRun
                       /\ it + 1 <= Len(runs) /\ runs[it + 1].value = 0
                    THEN 1 + runs[it + 1].length
                    ELSE 1
            IN [dataOffset |-> currentWchar,
                dataLength |-> lenInWchars,
                columnOffsetWithinGlyph |->
                    NarrowU8(colsLeftToCountInCurrentRun % runs[it].value),
                numberOfColumns |-> runs[it].value]

\* The runs of _cwid, counted from 1, that _indicesForCol(col) dereferences:
\* every run the walk tests, the run it stops at, and the run after it once
\* the glyph hit is the last of its run and nextRunIt is not the end.
RunsRead(runs, col) ==
    LET w == Walk(runs, 1, 0, 0, col)
        it == w.it
    IN IF it > Len(runs)
       THEN 1..Len(runs)
       ELSE (1..it) \cup
            (IF (col - w.currentCol) + runs[it].value >= runs[it].value * runs[it].length
                /\ it + 1 <= Len(runs)
             THEN {it + 1}
             ELSE {})

\* ROW::GlyphAt(col): the view [dataOffset, dataOffset + dataLength) of _data.
GlyphAt(d, runs, col) ==
    LET lookup == IndicesForCol(d, runs, col)
    IN SubSeq(d, lookup.dataOffset + 1, lookup.dataOffset + lookup.dataLength)

\* DbcsAttrAt for glyphs of at most two columns: only the column at offset 1
\* is Trailing.
DbcsAttrAtTwoWide(d, runs, col) ==
    LET lookup == IndicesForCol(d, runs, col)
    IN IF lookup.numberOfColumns = 1 THEN "Single"
       ELSE IF lookup.columnOffsetWithinGlyph = 1 THEN "Trailing"
       ELSE IF lookup.columnOffsetWithinGlyph = 0 THEN "Leading"
       ELSE "Single"

\* ROW::DbcsAttrAt(col).
DbcsAttrAt(d, runs, col) ==
    LET lookup == IndicesForCol(d, runs, col)
    IN IF lookup.numberOfColumns = 1 THEN "Single"
       ELSE IF lookup.columnOffsetWithinGlyph >= 1 THEN "Trailing"
       ELSE IF lookup.columnOffsetWithinGlyph = 0 THEN "Leading"
       ELSE "Single"

\* ROW::MeasureRight().
MeasureRight == maxc

\* ---------------------------------------------------------------- write
\* The damage begun at the code unit numbered as the column is, the columns
\* taken for code units.
StartDamageAtColumn(d, runs, col) ==
    LET lookup == IndicesForCol(d, runs, col)
        minDamageColumn == col - lookup.columnOffsetWithinGlyph
    IN [begin |-> col,
        len |-> lookup.dataLength,
        minDamageColumn |-> minDamageColumn,
        maxDamageColumnExclusive |-> minDamageColumn + lookup.numberOfColumns]

\* The damage begun with the leader alone, the glyph's trailers left out.
StartDamageOneUnit(d, runs, col) ==
    LET lookup == IndicesForCol(d, runs, col)
        minDamageColumn == col - lookup.columnOffsetWithinGlyph
    IN [begin |-> lookup.dataOffset,
        len |-> 1,
        minDamageColumn |-> minDamageColumn,
        maxDamageColumnExclusive |-> minDamageColumn + lookup.numberOfColumns]

\* WriteGlyphAtMeasured, the lookup of col and the first damage extent.
StartDamage(d, runs, col) ==
    LET lookup == IndicesForCol(d, runs, col)
        minDamageColumn == col - lookup.columnOffsetWithinGlyph
    IN [begin |-> lookup.dataOffset,
        len |-> lookup.dataLength,
        minDamageColumn |-> minDamageColumn,
        maxDamageColumnExclusive |-> minDamageColumn + lookup.numberOfColumns]

\* A pass of the damage loop that advances the column and leaves len as it was.
ExtendDamageKeepLen(d, runs, dmg) ==
    LET next == IndicesForCol(d, runs, dmg.maxDamageColumnExclusive)
    IN [dmg EXCEPT !.maxDamageColumnExclusive = @ + next.numberOfColumns]

\* One pass through the body of the damage loop: the glyph at
\* maxDamageColumnExclusive is added to the damage.
ExtendDamage(d, runs, dmg) ==
    LET next == IndicesForCol(d, runs, dmg.maxDamageColumnExclusive)
    IN [dmg EXCEPT !.len = @ + next.dataLength,
                   !.maxDamageColumnExclusive = @ + next.numberOfColumns]

\* The damage loop, run until maxDamageColumnExclusive >= col + ncols.
RECURSIVE DamageLoop(_, _, _, _)
DamageLoop(d, runs, dmg, limit) ==
    IF dmg.maxDamageColumnExclusive < limit
    THEN DamageLoop(d, runs, ExtendDamage(d, runs, dmg), limit)
    ELSE dmg

\* The exact branch taken whenever the write starts on a glyph boundary,
\* whatever it cuts on its right.
IsExactLeftOnly(col, ncols, dmg) == dmg.minDamageColumn = col

\* The branch taken: no spillover on either side.
IsExact(col, ncols, dmg) ==
    dmg.minDamageColumn = col /\ dmg.maxDamageColumnExclusive = col + ncols

\* newRuns of the exact branch with one trailer entry for any glyph of
\* several code units.
ExactRunsOneTrailer(ncols, glyph) ==
    SubSeq(<<Run(NarrowU8(ncols), 1), Run(0, 1)>>,
           1, IF Len(glyph) = 1 THEN 1 ELSE 2)

\* newRuns of the exact branch: [ncols, 0, 0, ...], the span cut to one run
\* for a one-code-unit glyph.
ExactRuns(ncols, glyph) ==
    SubSeq(<<Run(NarrowU8(ncols), 1), Run(0, NarrowU16(Len(glyph) - 1))>>,
           1, IF Len(glyph) = 1 THEN 1 ELSE 2)

\* The exact branch's text: the glyph itself.
ExactText(glyph) == glyph

\* The replacement text of the damage branch without its padding: the glyph
\* alone.
DamageTextNoPad(col, ncols, glyph, dmg) == glyph

\* The replacement text with the glyph put at its front, before the left padding.
DamageTextGlyphFirst(col, ncols, glyph, dmg) ==
    LET leftPad == col - dmg.minDamageColumn
        rightPad == dmg.maxDamageColumnExclusive - (col + ncols)
        replacementCodeUnits == leftPad + Len(glyph) + rightPad
    IN StrReplace(Fill(replacementCodeUnits, UNICODE_SPACE), 0, Len(glyph), glyph)

\* The damage branch's replacement text: spaces, the glyph, spaces.
DamageText(col, ncols, glyph, dmg) ==
    LET leftPad == col - dmg.minDamageColumn
        rightPad == dmg.maxDamageColumnExclusive - (col + ncols)
        replacementCodeUnits == leftPad + Len(glyph) + rightPad
    IN StrReplace(Fill(replacementCodeUnits, UNICODE_SPACE), leftPad, Len(glyph), glyph)

\* newRuns of the damage branch with the padding and trailer runs always
\* emitted, empty or not.
DamageRunsKeepEmpty(col, ncols, glyph, dmg) ==
    LET leftPad == col - dmg.minDamageColumn
        rightPad == dmg.maxDamageColumnExclusive - (col + ncols)
    IN <<Run(1, NarrowU16(leftPad)),
         Run(NarrowU8(ncols), 1),
         Run(0, NarrowU16(Len(glyph) - 1)),
         Run(1, NarrowU16(rightPad))>>

\* newRuns of the damage branch with the glyph's runs put first, before the
\* left padding.
DamageRunsLeaderFirst(col, ncols, glyph, dmg) ==
    LET leftPad == col - dmg.minDamageColumn
        rightPad == dmg.maxDamageColumnExclusive - (col + ncols)
    IN <<Run(NarrowU8(ncols), 1)>>
       \o (IF Len(glyph) > 1 THEN <<Run(0, NarrowU16(Len(glyph) - 1))>> ELSE <<>>)
       \o (IF leftPad # 0 THEN <<Run(1, NarrowU16(leftPad))>> ELSE <<>>)
       \o (IF rightPad # 0 THEN <<Run(1, NarrowU16(rightPad))>> ELSE <<>>)

\* newRuns of the damage branch: [1 x leftPad]? [ncols] [0 x (g-1)]? [1 x rightPad]?.
DamageRuns(col, ncols, glyph, dmg) ==
    LET leftPad == col - dmg.minDamageColumn
        rightPad == dmg.maxDamageColumnExclusive - (col + ncols)
    IN (IF leftPad # 0 THEN <<Run(1, NarrowU16(leftPad))>> ELSE <<>>)
       \o <<Run(NarrowU8(ncols), 1)>>
       \o (IF Len(glyph) > 1 THEN <<Run(0, NarrowU16(Len(glyph) - 1))>> ELSE <<>>)
       \o (IF rightPad # 0 THEN <<Run(1, NarrowU16(rightPad))>> ELSE <<>>)

\* The closing check made against the row's width in columns instead of the
\* length of _data in code units.
AlignCwidToWidth(d, runs) ==
    IF RleSize(runs) # Width THEN ResizeTrailingExtent(runs, NarrowU16(Width)) ELSE runs

\* The closing check of the write: _cwid is resized to the length of _data
\* when the two differ.
AlignCwid(d, runs) ==
    IF RleSize(runs) # Len(d) THEN ResizeTrailingExtent(runs, NarrowU16(Len(d))) ELSE runs

\* The watermark advanced by the columns of every glyph written.
NewMaxcAccumulate(mc, col, ncols, dmg) == NarrowU16(mc + ncols)

\* The watermark set to the right edge of the damage, the old value dropped.
NewMaxcAssign(mc, col, ncols, dmg) == dmg.maxDamageColumnExclusive

\* The watermark raised to the column written at, not to the right edge.
NewMaxcAtCol(mc, col, ncols, dmg) == Max(mc, col)

\* The new watermark.
NewMaxc(mc, col, ncols, dmg) == Max(mc, dmg.maxDamageColumnExclusive)

\* The value returned: the code-unit offset and the column after the glyph.
ReturnValue(col, ncols, glyph, dmg) == <<dmg.begin + Len(glyph), col + ncols>>

\* Everything WriteGlyphAtMeasured does once the damage is known: the two
\* replacements, the closing check, the watermark and the return value.
Commit(d, runs, mc, col, ncols, glyph, dmg) ==
    LET exact == IsExact(col, ncols, dmg)
        text == IF exact THEN ExactText(glyph) ELSE DamageText(col, ncols, glyph, dmg)
        newRuns == IF exact THEN ExactRuns(ncols, glyph)
                   ELSE DamageRuns(col, ncols, glyph, dmg)
        d2 == StrReplace(d, dmg.begin, dmg.len, text)
        r2 == RleReplace(runs, NarrowU16(dmg.begin), NarrowU16(dmg.begin + dmg.len), newRuns)
    IN [data |-> d2,
        cwid |-> AlignCwid(d2, r2),
        maxc |-> NewMaxc(mc, col, ncols, dmg),
        ret |-> ReturnValue(col, ncols, glyph, dmg)]

\* The record kept of a call: its arguments, the damage found and the
\* value returned.
CallRecord(col, ncols, glyph, dmg, ret) ==
    [op |-> "WriteGlyphAtMeasured", col |-> col, ncols |-> ncols, glyph |-> glyph,
     begin |-> dmg.begin, len |-> dmg.len,
     minDamageColumn |-> dmg.minDamageColumn,
     maxDamageColumnExclusive |-> dmg.maxDamageColumnExclusive,
     ret |-> ret]

NoCall == [op |-> "none"]
NoReturn == <<>>

\* The row, as a record.
Row == [data |-> data, cwid |-> cwid, maxc |-> maxc]

\* The row WriteGlyphAtMeasured(col, ncols, glyph) leaves when called on the
\* row r: the damage found, then the replacement.
Written(r, col, ncols, glyph) ==
    LET dmg == DamageLoop(r.data, r.cwid, StartDamage(r.data, r.cwid, col), col + ncols)
        out == Commit(r.data, r.cwid, r.maxc, col, ncols, glyph, dmg)
    IN [data |-> out.data, cwid |-> out.cwid, maxc |-> out.maxc]

\* The row ROW::ClearColumn(column) leaves: the damage-aware write of a
\* single-column space.
ClearColumn(r, column) == Written(r, column, 1, <<UNICODE_SPACE>>)

\* A write that marks the row as padded for a double-byte glyph.
WriteFramePads ==
    /\ doubleBytePadded' = TRUE
    /\ UNCHANGED <<attrRow, lineRendition, rowWidth, wrapForced>>

\* The members WriteGlyphAtMeasured does not assign: all but _data, _cwid
\* and _maxc.
WriteFrame == UNCHANGED others

\* ROW::WriteGlyphAtMeasured(col, ncols, glyph), start to return.
WriteGlyphAtMeasured(col, ncols, glyph) ==
    LET dmg == DamageLoop(data, cwid, StartDamage(data, cwid, col), col + ncols)
        out == Commit(data, cwid, maxc, col, ncols, glyph, dmg)
    IN /\ pc = "idle"
       /\ data' = out.data
       /\ cwid' = out.cwid
       /\ maxc' = out.maxc
       /\ pre' = Row
       /\ call' = CallRecord(col, ncols, glyph, dmg, out.ret)
       /\ pc' = "returned"
       /\ WriteFrame
       /\ UNCHANGED term

\* The caller takes the returned pair; the call's frame is gone.
Return ==
    /\ pc = "returned"
    /\ pre' = Row
    /\ call' = NoCall
    /\ pc' = "idle"
    /\ UNCHANGED <<data, cwid, maxc, others, term>>

\* ---------------------------------------------------------------- the console
\* The input and output modes and the code page wmain sets.
VtInputMode ==
    "PROCESSED_INPUT|WINDOW_INPUT|QUICK_EDIT_MODE|EXTENDED_FLAGS|VIRTUAL_TERMINAL_INPUT"
VtOutputMode ==
    "PROCESSED_OUTPUT|WRAP_AT_EOL_OUTPUT|VIRTUAL_TERMINAL_PROCESSING|DISABLE_NEWLINE_AUTO_RETURN"
CP_UTF8 == "CP_UTF8"

\* The settings a console may have when vtpipeterm starts.
InputModes == {"PROCESSED_INPUT|LINE_INPUT|ECHO_INPUT", VtInputMode}
OutputModes == {"PROCESSED_OUTPUT|WRAP_AT_EOL_OUTPUT", VtOutputMode}
CodePages == {"CP_437", CP_UTF8}

\* A local of wmain that has not been assigned from the console yet.
NotSaved == "not saved"

\* run() has thrown nothing.
NoException == 0

\* No pass of the event loop has been made.
NoBatch == [op |-> "none"]

\* wmain's locals before its first statement.
Unstarted ==
    /\ previousInputMode = NotSaved
    /\ previousOutputMode = NotSaved
    /\ previousInputCP = NotSaved
    /\ previousOutputCP = NotSaved
    /\ exitCode = 0
    /\ thrown = NoException
    /\ batch = NoBatch

\* vtpipeterm is not running; the console has its usual settings.
TermOff ==
    /\ inputMode = "PROCESSED_INPUT|LINE_INPUT|ECHO_INPUT"
    /\ outputMode = "PROCESSED_OUTPUT|WRAP_AT_EOL_OUTPUT"
    /\ inputCP = "CP_437"
    /\ outputCP = "CP_437"
    /\ Unstarted
    /\ tpc = "off"

\* ---------------------------------------------------------------- specification
\* A row of w columns created blank: w spaces, one run (1, w), watermark 0,
\* one fill attribute, single-width rendition, no wrap and no padding.
BlankROW(w) ==
    /\ data = Fill(w, UNICODE_SPACE)
    /\ cwid = <<Run(1, w)>>
    /\ maxc = 0
    /\ attrRow = "fill"
    /\ lineRendition = "SingleWidth"
    /\ rowWidth = w
    /\ wrapForced = FALSE
    /\ doubleBytePadded = FALSE
    /\ pre = [data |-> data, cwid |-> cwid, maxc |-> maxc]
    /\ call = NoCall
    /\ pc = "idle"

\* The blank row, with vtpipeterm not running.
Blank(w) == BlankROW(w) /\ TermOff

\* The row under test, created blank.
Init == Blank(Width)

\* Callers write glyphs of 1..MaxNcols columns that fit in the row.
Write ==
    \E col \in 0..(Width - 1), ncols \in 1..MaxNcols, glyph \in Glyphs :
        /\ col + ncols <= Width
        /\ WriteGlyphAtMeasured(col, ncols, glyph)

Next == Write \/ Return

Spec == Init /\ [][Next]_vars

\* ---------------------------------------------------------------- any arguments
\* The same row, written with arguments a caller is not barred from passing:
\* ncols = 0, and columns at or past the right edge. The damage loop is taken
\* one pass at a time, since it need not end.

\* The call starts: lines 180-182.
Enter(col, ncols, glyph) ==
    /\ pc = "idle"
    /\ Len(data) <= MaxDataLen
    /\ pre' = Row
    /\ call' = CallRecord(col, ncols, glyph, StartDamage(data, cwid, col), NoReturn)
    /\ pc' = "loop"
    /\ UNCHANGED <<data, cwid, maxc, others, term>>

\* The damage found so far by the running call.
CallDamage ==
    [begin |-> call.begin, len |-> call.len,
     minDamageColumn |-> call.minDamageColumn,
     maxDamageColumnExclusive |-> call.maxDamageColumnExclusive]

\* One pass of the damage loop. A pass that changes neither len nor
\* maxDamageColumnExclusive is repeated without end: the call spins.
Iterate ==
    /\ pc = "loop"
    /\ call.maxDamageColumnExclusive < call.col + call.ncols
    /\ LET dmg == ExtendDamage(data, cwid, CallDamage)
       IN /\ call' = CallRecord(call.col, call.ncols, call.glyph, dmg, NoReturn)
          /\ pc' = IF dmg = CallDamage THEN "spin" ELSE "loop"
    /\ UNCHANGED <<data, cwid, maxc, others, pre, term>>

\* The loop has ended: lines 194-253.
Finish ==
    /\ pc = "loop"
    /\ ~(call.maxDamageColumnExclusive < call.col + call.ncols)
    /\ LET out == Commit(data, cwid, maxc, call.col, call.ncols, call.glyph, CallDamage)
       IN /\ data' = out.data
          /\ cwid' = out.cwid
          /\ maxc' = out.maxc
          /\ call' = CallRecord(call.col, call.ncols, call.glyph, CallDamage, out.ret)
    /\ pc' = "returned"
    /\ WriteFrame
    /\ UNCHANGED term
    /\ UNCHANGED pre

\* Any column up to one past the right edge, any ncols from 0.
EnterAny ==
    \E col \in 0..Width, ncols \in 0..MaxNcols, glyph \in Glyphs :
        Enter(col, ncols, glyph)

NextArgs == EnterAny \/ Iterate \/ Finish \/ Return

SpecArgs == Init /\ [][NextArgs]_vars

\* ---------------------------------------------------------------- word classes
\* The code units of the rows' text.
CodeUnits == {UNICODE_SPACE, "a", "m"}

\* The bounds check with the column one past the right edge let through.
OutOfRangePastWidth(column) == column > rowWidth

\* THROW_HR_IF(E_INVALIDARG, column >= _rowWidth).
OutOfRange(column) == column >= rowWidth

\* The class of a code unit: at or below the space, a delimiter, or regular.
\* The space is the only code unit of CodeUnits at or below U+0020.
DelimiterClassOf(glyph, wordDelimiters) ==
    IF glyph = UNICODE_SPACE THEN "ControlChar"
    ELSE IF glyph \in wordDelimiters THEN "DelimiterChar"
    ELSE "RegularChar"

\* ROW::DelimiterClassAt(column, wordDelimiters). The code unit read is the
\* first of GlyphAt(column); dereferencing begin() of an empty view reads
\* whatever lies there.
DelimiterClassAt(column, wordDelimiters) ==
    /\ pc = "idle"
    /\ IF OutOfRange(column)
       THEN call' = [op |-> "DelimiterClassAt", col |-> column,
                     read |-> <<>>, ret |-> "InvalidArgument"]
       ELSE LET view == GlyphAt(data, cwid, column)
            IN \E glyph \in (IF view = <<>> THEN CodeUnits ELSE {view[1]}) :
                  call' = [op |-> "DelimiterClassAt", col |-> column,
                           read |-> <<glyph>>,
                           ret |-> DelimiterClassOf(glyph, wordDelimiters)]
    /\ pre' = Row
    /\ pc' = "returned"
    /\ UNCHANGED <<data, cwid, maxc, others, term>>

\* Callers classify any column up to one past the right edge, with no
\* delimiters or with the letter as a delimiter.
Read ==
    \E column \in 0..(Width + 1), wordDelimiters \in {{}, {"a"}} :
        DelimiterClassAt(column, wordDelimiters)

NextRead == Write \/ Return \/ Read

SpecRead == Init /\ [][NextRead]_vars

\* ---------------------------------------------------------------- filling a row
\* The glyphs of one code unit.
OneUnitGlyphs == {glyph \in Glyphs : Len(glyph) = 1}

\* A caller starts to fill the row, left to right, one column per glyph. The
\* call record keeps the glyphs written so far and what the row held before.
StartFill ==
    /\ pc = "idle"
    /\ pc' = "fill"
    /\ call' = [op |-> "Fill", next |-> 0, glyphs |-> <<>>,
                hadWide |-> \E i \in 1..Len(cwid) : cwid[i].value >= 2,
                hadTrailers |-> \E i \in 1..Len(cwid) : cwid[i].value = 0 /\ cwid[i].length > 0]
    /\ pre' = Row
    /\ UNCHANGED <<data, cwid, maxc, others, term>>

\* The next call of the fill: WriteGlyphAtMeasured(next, 1, glyph).
FillStep ==
    /\ pc = "fill"
    /\ call.next < Width
    /\ \E glyph \in OneUnitGlyphs :
          LET out == Written(Row, call.next, 1, glyph)
          IN /\ data' = out.data
             /\ cwid' = out.cwid
             /\ maxc' = out.maxc
             /\ call' = [call EXCEPT !.next = @ + 1, !.glyphs = @ \o glyph]
             /\ pre' = out
    /\ pc' = "fill"
    /\ WriteFrame
    /\ UNCHANGED term

\* The fill has written its last column.
FillDone ==
    /\ pc = "fill"
    /\ call.next = Width
    /\ pc' = "idle"
    /\ call' = NoCall
    /\ pre' = Row
    /\ UNCHANGED <<data, cwid, maxc, others, term>>

NextFill == Write \/ Return \/ StartFill \/ FillStep \/ FillDone

SpecFill == Init /\ [][NextFill]_vars

\* ---------------------------------------------------------------- the other members
\* SetWrapForced(wrap).
SetWrapForced(wrap) ==
    /\ pc = "idle"
    /\ wrapForced' = wrap
    /\ UNCHANGED <<data, cwid, maxc, attrRow, lineRendition, rowWidth, doubleBytePadded, pre, call, pc, term>>

\* SetDoubleBytePadded(doubleBytePadded).
SetDoubleBytePadded(padded) ==
    /\ pc = "idle"
    /\ doubleBytePadded' = padded
    /\ UNCHANGED <<data, cwid, maxc, attrRow, lineRendition, rowWidth, wrapForced, pre, call, pc, term>>

\* SetLineRendition(lineRendition).
SetLineRendition(rendition) ==
    /\ pc = "idle"
    /\ lineRendition' = rendition
    /\ UNCHANGED <<data, cwid, maxc, attrRow, rowWidth, wrapForced, doubleBytePadded, pre, call, pc, term>>

\* A collaborator rewrites the attributes through GetAttrRow().
SetAttrRow(attr) ==
    /\ pc = "idle"
    /\ attrRow' = attr
    /\ UNCHANGED <<data, cwid, maxc, lineRendition, rowWidth, wrapForced, doubleBytePadded, pre, call, pc, term>>

\* The glyphs written while the other members vary: a leader and a trailer.
FrameGlyphs == {glyph \in Glyphs : Len(glyph) = 2}

WriteFramed ==
    \E col \in 0..(Width - 1), ncols \in 1..MaxNcols, glyph \in FrameGlyphs :
        /\ col + ncols <= Width
        /\ WriteGlyphAtMeasured(col, ncols, glyph)

SetMember ==
    \/ \E wrap \in BOOLEAN : SetWrapForced(wrap)
    \/ \E padded \in BOOLEAN : SetDoubleBytePadded(padded)
    \/ \E rendition \in {"SingleWidth", "DoubleWidth"} : SetLineRendition(rendition)
    \/ \E attr \in {"fill", "colored"} : SetAttrRow(attr)

NextFrame == WriteFramed \/ Return \/ SetMember

SpecFrame == Init /\ [][NextFrame]_vars

\* ---------------------------------------------------------------- the scenarios' row
\* The wide glyph of the scenarios: one code unit, two columns. The letter
\* stands for U+6F22.
WideGlyph == <<"a">>

\* The scenarios' row: ten columns, created blank.
InitScenario == Blank(10)

\* A caller writes the wide glyph at any column that leaves room for it.
WriteWide ==
    \E col \in 0..(rowWidth - 2) : WriteGlyphAtMeasured(col, 2, WideGlyph)

NextScenario == WriteWide \/ Return

SpecScenario == InitScenario /\ [][NextScenario]_vars

\* ---------------------------------------------------------------- lookup alone
\* The lengths of the runs under lookup.
RunLengths == {1, 2}

\* A width map is canonical when no run is empty and no two neighbours have
\* the same value, and keeps the trailer invariant when it does not start
\* with zeros.
IsCanonical(runs) ==
    /\ \A i \in 1..Len(runs) : runs[i].length > 0
    /\ \A i \in 1..(Len(runs) - 1) : runs[i].value # runs[i + 1].value
    /\ runs[1].value # 0

LookupRuns == {Run(v, l) : v \in 0..MaxNcols, l \in RunLengths}

CanonicalCwids ==
    {runs \in UNION {[1..n -> LookupRuns] : n \in 1..MaxRuns} : IsCanonical(runs)}

\* The text under a width map: a letter for every leader, a mark for every
\* trailer.
TextOf(runs) ==
    [i \in 1..RleSize(runs) |-> IF Flat(runs)[i] = 0 THEN "m" ELSE "a"]

\* Any row with a canonical width map, its text and cwid aligned.
InitLookup ==
    /\ cwid \in CanonicalCwids
    /\ data = TextOf(cwid)
    /\ maxc = 0
    /\ attrRow = "fill"
    /\ lineRendition = "SingleWidth"
    /\ rowWidth = TotalColumns(cwid)
    /\ wrapForced = FALSE
    /\ doubleBytePadded = FALSE
    /\ pre = [data |-> data, cwid |-> cwid, maxc |-> maxc]
    /\ call = NoCall
    /\ pc = "idle"
    /\ TermOff

\* A call of _indicesForCol(col), for a column of the row or one of the two
\* past its last.
Lookup ==
    /\ pc = "idle"
    /\ \E col \in 0..(TotalColumns(cwid) + 1) :
          call' = [op |-> "IndicesForCol", col |-> col,
                   ret |-> IndicesForCol(data, cwid, col),
                   runsRead |-> RunsRead(cwid, col)]
    /\ pre' = Row
    /\ pc' = "returned"
    /\ UNCHANGED <<data, cwid, maxc, others, term>>

NextLookup == Lookup \/ Return

SpecLookup == InitLookup /\ [][NextLookup]_vars

\* ---------------------------------------------------------------- column classes
\* A caller asks DbcsAttrAt(col) for any column up to one past the right
\* edge: the method checks no bound. The record keeps numberOfColumns of the
\* lookup the method made.
ReadDbcsAttr ==
    /\ pc = "idle"
    /\ \E col \in 0..(Width + 1) :
          call' = [op |-> "DbcsAttrAt", col |-> col,
                   numberOfColumns |-> IndicesForCol(data, cwid, col).numberOfColumns,
                   ret |-> DbcsAttrAt(data, cwid, col)]
    /\ pre' = Row
    /\ pc' = "returned"
    /\ UNCHANGED <<data, cwid, maxc, others, term>>

NextAttr == Write \/ Return \/ ReadDbcsAttr

SpecAttr == Init /\ [][NextAttr]_vars

\* ---------------------------------------------------------------- vtpipeterm
\* The most input records one read returns.
MaxRecords == 3

\* The error codes a wil::ResultException carries: failed HRESULTs.
ErrorCodes == {-1, -2}

\* The kinds of input record: a key pressed, a key released, a change of the
\* window's buffer size, anything else.
RecordTypes == {"KeyDown", "KeyUp", "WindowBufferSize", "Other"}

Batches == UNION {[1..n -> RecordTypes] : n \in 0..MaxRecords}

\* The console seen from the process, and wmain's saved settings.
console == <<inputMode, outputMode, inputCP, outputCP>>
previous == <<previousInputMode, previousOutputMode, previousInputCP, previousOutputCP>>

\* wmain, lines 209-225: the settings are saved and replaced.
Startup ==
    /\ tpc = "wmain"
    /\ previousInputMode' = inputMode
    /\ inputMode' = VtInputMode
    /\ previousOutputMode' = outputMode
    /\ outputMode' = VtOutputMode
    /\ previousInputCP' = inputCP
    /\ previousOutputCP' = outputCP
    /\ inputCP' = CP_UTF8
    /\ outputCP' = CP_UTF8
    /\ exitCode' = 0
    /\ tpc' = "run"
    /\ UNCHANGED <<thrown, batch, rowVars>>

\* A THROW_ macro of run() fires; wmain's catch block takes the error code.
Throw(code) ==
    /\ thrown' = code
    /\ exitCode' = code
    /\ tpc' = "caught"

\* run() returns.
RunReturns ==
    /\ tpc' = "returned"
    /\ UNCHANGED <<thrown, exitCode>>

\* run() enters its event loop.
EnterLoop ==
    /\ tpc' = "wait"
    /\ UNCHANGED <<thrown, exitCode>>

\* A case of the event loop ends at its break.
Break ==
    /\ tpc' = "break"
    /\ UNCHANGED <<thrown, exitCode>>

\* run(), lines 47-127: the pipe, the pseudoconsole and the child process are
\* set up and the first output is copied; any of the calls may fail.
RunSetup ==
    /\ tpc = "run"
    /\ \/ \E code \in ErrorCodes : Throw(code)
       \/ RunReturns
       \/ EnterLoop
    /\ UNCHANGED <<console, previous, batch, rowVars>>

\* write after the loop over the records: one byte per key-down record.
KeyDowns(records) == Cardinality({i \in 1..Len(records) : records[i] = "KeyDown"})

\* run(), lines 133-173: the console input is signalled. The read fails or
\* returns records; a window-size record finds the viewport as it was,
\* resizes the pseudoconsole, or fails to; the bytes of the key-down records
\* are written to the pipe, of which WriteFile reports written.
InputReady ==
    /\ tpc = "wait"
    /\ \E readOk \in BOOLEAN, records \in Batches,
          resize \in {"same", "resized", "failed"},
          writeOk \in BOOLEAN, written \in 0..MaxRecords :
          LET read == Len(records)
              write == KeyDowns(records)
              sized == \E i \in 1..read : records[i] = "WindowBufferSize"
              threw == readOk /\ read # 0 /\ resize = "failed"
              wrote == readOk /\ read # 0 /\ ~threw /\ write # 0
          IN /\ readOk \/ records = <<>>
             /\ sized \/ resize = "same"
             /\ wrote \/ (writeOk /\ written = 0)
             /\ written <= write
             /\ writeOk \/ written = 0
             /\ batch' = [op |-> "input", readOk |-> readOk, records |-> records,
                          resize |-> resize, write |-> write,
                          writeOk |-> writeOk, written |-> written]
             /\ IF ~readOk \/ read = 0 THEN RunReturns
                ELSE IF threw THEN \E code \in ErrorCodes : Throw(code)
                ELSE IF write # 0 /\ (~writeOk \/ written # read) THEN RunReturns
                ELSE Break
    /\ UNCHANGED <<console, previous, rowVars>>

\* run(), lines 174-197: output of the pseudoconsole is ready and is copied
\* to the console until a read is pending; a failure ends run().
OutputReady ==
    /\ tpc = "wait"
    /\ \E outcome \in {"pending", "failed"} :
          /\ batch' = [op |-> "output", outcome |-> outcome]
          /\ IF outcome = "pending" THEN Break ELSE RunReturns
    /\ UNCHANGED <<console, previous, rowVars>>

\* run(), lines 198-199: the wait itself fails.
WaitFailed ==
    /\ tpc = "wait"
    /\ batch' = [op |-> "wait failed"]
    /\ RunReturns
    /\ UNCHANGED <<console, previous, rowVars>>

\* run(), line 129: after the break the loop waits for the next event; the
\* locals of the pass are gone.
NextEvent ==
    /\ tpc = "break"
    /\ tpc' = "wait"
    /\ batch' = NoBatch
    /\ UNCHANGED <<console, previous, exitCode, thrown, rowVars>>

\* wmain, lines 237-241: the settings put back, then the return.
Restore ==
    /\ tpc \in {"returned", "caught"}
    /\ outputMode' = previousOutputMode
    /\ inputCP' = previousInputCP
    /\ outputCP' = previousOutputCP
    /\ tpc' = "exited"
    /\ UNCHANGED <<inputMode, previous, exitCode, thrown, batch, rowVars>>

\* vtpipeterm started on a console with any of the settings.
InitTerm ==
    /\ BlankROW(Width)
    /\ inputMode \in InputModes
    /\ outputMode \in OutputModes
    /\ inputCP \in CodePages
    /\ outputCP \in CodePages
    /\ Unstarted
    /\ tpc = "wmain"

NextTerm ==
    \/ Startup \/ RunSetup
    \/ InputReady \/ OutputReady \/ WaitFailed \/ NextEvent
    \/ Restore

SpecTerm == InitTerm /\ [][NextTerm]_vars

\* ---------------------------------------------------------------- reading a row
\* The row read code unit by code unit, without the lookup: the properties
\* below compare what the lookup and the write do against this reading.

\* The first column of code unit i (1-based) in the flat reading v.
RECURSIVE StartCol(_, _)
StartCol(v, i) == IF i <= 1 THEN 0 ELSE v[i - 1] + StartCol(v, i - 1)

\* The code unit (1-based) that leads the glyph covering column c.
LeaderAt(v, c) ==
    CHOOSE i \in 1..Len(v) : v[i] > 0 /\ StartCol(v, i) <= c /\ c < StartCol(v, i) + v[i]

\* The first column, and the column after the last, of the glyph covering c.
GlyphStartCol(runs, c) == StartCol(Flat(runs), LeaderAt(Flat(runs), c))
GlyphEndCol(runs, c) ==
    LET v == Flat(runs) IN StartCol(v, LeaderAt(v, c)) + v[LeaderAt(v, c)]

\* A write has returned and its record is at hand.
Wrote == pc = "returned" /\ call.op = "WriteGlyphAtMeasured"

\* Column c holds a one-code-unit, one-column space.
IsSpaceAt(d, runs, c) ==
    /\ GlyphAt(d, runs, c) = <<UNICODE_SPACE>>
    /\ IndicesForCol(d, runs, c).numberOfColumns = 1
    /\ DbcsAttrAt(d, runs, c) = "Single"

\* ---------------------------------------------------------------- properties

\* C1: in every row reached from a blank row by writes that fit, the runs of
\* cwid cover exactly as many code units as data holds.
C1_Alignment == RleSize(cwid) = Len(data)

\* A write of a glyph of several code units has changed the length of data.
C1_Witness == Wrote /\ Len(call.glyph) > 1 /\ Len(data) # Len(pre.data)

\* C2: in every row reached from a blank row by writes that fit, the column
\* values of all code units sum to the width of the row.
C2_ColumnCoverage == TotalColumns(cwid) = Width

\* A write has damaged glyphs on both of its sides.
C2_Witness ==
    /\ Wrote
    /\ call.minDamageColumn < call.col
    /\ call.maxDamageColumnExclusive > call.col + call.ncols

\* The left-damage write of scenario 3, at any place in the row: a one-column,
\* one-code-unit glyph written on the trailing half of the only wide glyph of
\* an otherwise single-width row.
IsScenario3 ==
    /\ Wrote
    /\ call.ncols = 1 /\ Len(call.glyph) = 1
    /\ \E k \in 1..(Width - 3) :
          /\ pre.cwid = <<Run(1, k), Run(2, 1), Run(1, Width - k - 2)>>
          /\ call.col = k + 1

\* C3: after every write cwid has no run of length 0 and no two adjacent runs
\* of equal value; the left-damage write of scenario 3 leaves the one run
\* (1, Width).
C3_Canonical ==
    /\ \A i \in 1..Len(cwid) : cwid[i].length > 0
    /\ \A i \in 1..(Len(cwid) - 1) : cwid[i].value # cwid[i + 1].value
    /\ IsScenario3 => cwid = <<Run(1, Width)>>

C3_Witness == IsScenario3 /\ cwid = <<Run(1, Width)>>

\* C4: after a write of a 2-column glyph G at column k, GlyphAt(k) and
\* GlyphAt(k+1) are the same view of data, that view is G, and the two
\* columns are Leading and Trailing.
C4_WideRoundTrip ==
    (Wrote /\ call.ncols = 2) =>
        LET k == call.col
            at0 == IndicesForCol(data, cwid, k)
            at1 == IndicesForCol(data, cwid, k + 1)
        IN /\ at0.dataOffset = at1.dataOffset
           /\ at0.dataLength = at1.dataLength
           /\ at0.dataLength = Len(call.glyph)
           /\ GlyphAt(data, cwid, k) = call.glyph
           /\ GlyphAt(data, cwid, k + 1) = call.glyph
           /\ DbcsAttrAt(data, cwid, k) = "Leading"
           /\ DbcsAttrAt(data, cwid, k + 1) = "Trailing"

\* A 2-column glyph with combining marks was written next to another wide glyph.
C4_Witness ==
    /\ Wrote /\ call.ncols = 2 /\ Len(call.glyph) = 3
    /\ call.col >= 2 /\ DbcsAttrAt(data, cwid, call.col - 1) = "Trailing"

\* The columns of partially overwritten glyphs that the new glyph does not
\* cover, read from the row as it was before the write.
LeftOver ==
    (GlyphStartCol(pre.cwid, call.col)..(call.col - 1))
    \cup ((call.col + call.ncols)..(GlyphEndCol(pre.cwid, call.col + call.ncols - 1) - 1))

\* A one-column space was written on the trailing half of a 2-column glyph.
IsSpaceOnTrailingHalf ==
    /\ Wrote
    /\ call.ncols = 1 /\ call.glyph = <<UNICODE_SPACE>>
    /\ IndicesForCol(pre.data, pre.cwid, call.col).numberOfColumns = 2
    /\ DbcsAttrAt(pre.data, pre.cwid, call.col) = "Trailing"

\* C5: after a write, every column of a partially overwritten glyph that the
\* new glyph does not cover holds a one-code-unit, one-column space; a space
\* written on the trailing half k of a 2-column glyph leaves spaces at k and k-1.
C5_NoHalfGlyph ==
    /\ Wrote => \A c \in LeftOver : IsSpaceAt(data, cwid, c)
    /\ IsSpaceOnTrailingHalf =>
          /\ GlyphAt(data, cwid, call.col) = <<UNICODE_SPACE>>
          /\ GlyphAt(data, cwid, call.col - 1) = <<UNICODE_SPACE>>

\* A write that left columns over on both sides.
C5_Witness == Wrote /\ Cardinality(LeftOver) >= 2 /\ call.glyph # <<UNICODE_SPACE>>
                    /\ call.minDamageColumn < call.col
                    /\ call.maxDamageColumnExclusive > call.col + call.ncols

\* A 2-column glyph was written at column k of a row in which a 2-column
\* glyph occupied columns k+1..k+2.
IsRightDamage ==
    /\ Wrote
    /\ call.ncols = 2
    /\ call.col + 2 < Width
    /\ GlyphStartCol(pre.cwid, call.col + 1) = call.col + 1
    /\ GlyphEndCol(pre.cwid, call.col + 1) = call.col + 3

\* The new glyph is whole at columns k..k+1.
NewGlyphIntact ==
    /\ GlyphAt(data, cwid, call.col) = call.glyph
    /\ GlyphAt(data, cwid, call.col + 1) = call.glyph
    /\ DbcsAttrAt(data, cwid, call.col) = "Leading"
    /\ DbcsAttrAt(data, cwid, call.col + 1) = "Trailing"

\* C6 as stated: the right-damage write leaves the new glyph whole at k..k+1
\* and a single space at column k+3, whatever column k+3 held.
C6_RightDamage_AsStated ==
    (IsRightDamage /\ call.col + 3 < Width) =>
        /\ NewGlyphIntact
        /\ IsSpaceAt(data, cwid, call.col + 3)

\* C6, amended: the right-damage write leaves the new glyph whole at k..k+1
\* and a single space at column k+2, the orphaned trailing half of the old
\* glyph; column k+3, when the row has one, keeps the glyph it held.
C6_RightDamage ==
    IsRightDamage =>
        /\ NewGlyphIntact
        /\ IsSpaceAt(data, cwid, call.col + 2)
        /\ call.col + 3 < Width =>
              GlyphAt(data, cwid, call.col + 3) = GlyphAt(pre.data, pre.cwid, call.col + 3)

\* The right-damage write, with a glyph that is no space in column k+3.
C6_Witness ==
    /\ IsRightDamage /\ call.col + 3 < Width
    /\ GlyphAt(data, cwid, call.col + 3) # <<UNICODE_SPACE>>

\* C7: a write returns (o, c) with c = col + ncols and o the offset just after
\* the written glyph: the g code units of data before o are the glyph.
C7_ReturnValue ==
    Wrote =>
        LET o == call.ret[1]
            g == Len(call.glyph)
        IN /\ call.ret[2] = call.col + call.ncols
           /\ o >= g
           /\ SubSeq(data, o - g + 1, o) = call.glyph

\* The outcome C8 expects of a rejected call.
InvalidArgument == "InvalidArgument"

\* C8: a write with ncols = 0 is rejected with InvalidArgument and leaves
\* data, cwid and the watermark as they were; no code unit that leads a glyph
\* has column value 0.
C8_ZeroColumnsRejected ==
    /\ (Wrote /\ call.ncols = 0) => (call.ret = InvalidArgument /\ Row = pre)
    /\ \A i \in 1..Len(Flat(cwid)) :
          Flat(cwid)[i] = 0 => (i > 1 /\ data[i] = "m")

\* C9: every call runs to completion: the damage loop never reaches a pass
\* that repeats without end.
C9_Terminates == pc # "spin"

\* C10: after a write the watermark is the larger of the previous watermark
\* and maxDamageColumnExclusive, which is the right edge of the last stored
\* glyph the write overlaps: at least col + ncols, and more when that glyph
\* reaches past the new one; on a blank row a 2-column write at col leaves
\* the watermark at col + 2.
C10_Watermark ==
    Wrote =>
        LET edge == GlyphEndCol(pre.cwid, call.col + call.ncols - 1)
        IN /\ call.maxDamageColumnExclusive = edge
           /\ MeasureRight = Max(pre.maxc, edge)
           /\ MeasureRight >= call.col + call.ncols
           /\ (pre.maxc <= call.col + call.ncols /\ edge > call.col + call.ncols)
                 => MeasureRight > call.col + call.ncols
           /\ (pre.cwid = <<Run(1, Width)>> /\ pre.maxc = 0 /\ call.ncols = 2)
                 => MeasureRight = call.col + 2

\* A write cut the leading part of a wide glyph and the watermark moved past
\* the new glyph.
C10_Witness ==
    /\ Wrote
    /\ call.maxDamageColumnExclusive > call.col + call.ncols
    /\ IndicesForCol(pre.data, pre.cwid, call.col + call.ncols - 1).numberOfColumns >= 2
    /\ MeasureRight > call.col + call.ncols

\* C11: along any sequence of writes that fit, on a row created blank,
\* MeasureRight() is at most the width in every state and never decreases
\* from one state to the next.
C11_WatermarkBounds ==
    /\ [](MeasureRight <= Width)
    /\ [][MeasureRight' >= MeasureRight]_vars

\* A write left of the watermark has returned, and the watermark stayed.
C11_Witness ==
    /\ Wrote
    /\ call.maxDamageColumnExclusive < pre.maxc
    /\ MeasureRight = pre.maxc
    /\ MeasureRight <= Width

\* A one-column glyph of three code units has been written.
IsTrailerWrite == Wrote /\ call.ncols = 1 /\ Len(call.glyph) = 3

\* C12: after a one-column glyph of three code units is written at column k,
\* the column values at its place are 1, 0, 0, held as a run of 1s ending on
\* its leader followed by the run (0, 2); GlyphAt(k) is the three code units,
\* DbcsAttrAt(k) is Single, and column k+1 resolves to the glyph after the
\* trailers.
C12_Trailers ==
    IsTrailerWrite =>
        LET k == call.col
            v == Flat(cwid)
            i == LeaderAt(v, k)
        IN /\ i + 2 <= Len(v)
           /\ v[i] = 1 /\ v[i + 1] = 0 /\ v[i + 2] = 0
           /\ \E j \in 1..(Len(cwid) - 1) :
                 /\ cwid[j].value = 1
                 /\ cwid[j + 1] = Run(0, 2)
                 /\ RleSize(SubSeq(cwid, 1, j)) = i
           /\ IndicesForCol(data, cwid, k).dataOffset = i - 1
           /\ GlyphAt(data, cwid, k) = call.glyph
           /\ DbcsAttrAt(data, cwid, k) = "Single"
           /\ k + 1 < Width =>
                 /\ IndicesForCol(data, cwid, k + 1).dataOffset = i + 2
                 /\ v[i + 3] # 0
                 /\ GlyphAt(data, cwid, k + 1)[1] # "m"

\* The glyph was written in the middle of the row, on the trailing half of a
\* wide glyph, with a single-width glyph on its left afterwards.
C12_Witness ==
    /\ IsTrailerWrite
    /\ call.col >= 1 /\ call.col + 1 < Width
    /\ call.minDamageColumn < call.col
    /\ DbcsAttrAt(data, cwid, call.col - 1) = "Single"

\* C13: in every row and for every column of it, DbcsAttrAt is Single exactly
\* when the glyph covering the column is one column wide, Leading exactly
\* when that glyph is wider and the column is its first, and Trailing exactly
\* when the column is not the glyph's first.
C13_DbcsClassification ==
    \A col \in 0..(Width - 1) :
        LET v == Flat(cwid)
            i == LeaderAt(v, col)
            first == StartCol(v, i)
            attr == DbcsAttrAt(data, cwid, col)
        IN /\ attr \in {"Single", "Leading", "Trailing"}
           /\ attr = "Single" <=> v[i] = 1
           /\ attr = "Leading" <=> (v[i] >= 2 /\ col = first)
           /\ attr = "Trailing" <=> col # first

\* A row holds a 3-column glyph whose third column is Trailing.
C13_Witness ==
    \E col \in 2..(Width - 1) :
        /\ GlyphStartCol(cwid, col) = col - 2
        /\ DbcsAttrAt(data, cwid, col) = "Trailing"

\* A call of DelimiterClassAt has returned or thrown.
Classified == pc = "returned" /\ call.op = "DelimiterClassAt"

\* C14: DelimiterClassAt fails with InvalidArgument for every column at or
\* past the width, having read no code unit of the row; for every column
\* below the width it returns a class; either way the row is as it was.
C14_DelimiterBounds ==
    Classified =>
        /\ Row = pre
        /\ IF call.col >= Width
           THEN call.ret = "InvalidArgument" /\ call.read = <<>>
           ELSE call.ret \in {"ControlChar", "DelimiterChar", "RegularChar"}

\* The column equal to the width was refused on a row that holds text.
C14_Witness ==
    /\ Classified
    /\ call.col = Width
    /\ call.ret = "InvalidArgument"
    /\ data # Fill(Width, UNICODE_SPACE)

\* C15: on every reachable row and for every column c below the width,
\* ClearColumn(c) applied twice leaves the data, cwid and watermark that one
\* application leaves; and a write that has just returned, repeated at once
\* with the same arguments, leaves the row as it is.
C15_Idempotent ==
    /\ pc = "idle" =>
          \A c \in 0..(Width - 1) :
              ClearColumn(ClearColumn(Row, c), c) = ClearColumn(Row, c)
    /\ Wrote => Written(Row, call.col, call.ncols, call.glyph) = Row

\* A write that repaired damage on both of its sides has returned, and the
\* idle row it leaves still holds a wide glyph for ClearColumn to cut.
C15_Witness ==
    /\ Wrote
    /\ call.minDamageColumn < call.col
    /\ call.maxDamageColumnExclusive > call.col + call.ncols
    /\ \E c \in 0..(Width - 1) :
          /\ IndicesForCol(data, cwid, c).numberOfColumns >= 2
          /\ ClearColumn(Row, c) # Row

\* The fill has written all the columns of the row.
Filled == pc = "fill" /\ call.next = Width

\* C16: on any reachable row of width W, once W one-code-unit, one-column
\* glyphs g_0..g_{W-1} are written at columns 0..W-1 in order, GlyphAt(c) is
\* g_c for every column c, the data is g_0..g_{W-1}, cwid is the single run
\* (1,W) and MeasureRight() is W.
C16_SingleWidthRoundTrip ==
    Filled =>
        /\ \A c \in 0..(Width - 1) : GlyphAt(data, cwid, c) = <<call.glyphs[c + 1]>>
        /\ data = call.glyphs
        /\ cwid = <<Run(1, Width)>>
        /\ MeasureRight = Width

\* A fill has finished on a row that held a wide glyph and trailers, with
\* both a letter and a space among the glyphs written.
C16_Witness ==
    /\ Filled
    /\ call.hadWide
    /\ call.hadTrailers
    /\ \E c, e \in 1..Width : call.glyphs[c] = "a" /\ call.glyphs[e] = UNICODE_SPACE

\* C17: a call of WriteGlyphAtMeasured leaves the attribute row, the width,
\* the line rendition, wrapForced and doubleBytePadded as they were, whatever
\* the arguments and the row, writes that repair damage with spaces included.
C17_WriteFrame ==
    [][(pc = "idle" /\ pc' = "returned" /\ call'.op = "WriteGlyphAtMeasured")
          => /\ attrRow' = attrRow
             /\ rowWidth' = rowWidth
             /\ lineRendition' = lineRendition
             /\ wrapForced' = wrapForced
             /\ doubleBytePadded' = doubleBytePadded]_vars

\* A write that repaired damage on its left with a space has returned on a
\* row whose other members had all been set away from their initial values.
C17_Witness ==
    /\ Wrote
    /\ call.minDamageColumn < call.col
    /\ IsSpaceAt(data, cwid, call.minDamageColumn)
    /\ attrRow = "colored"
    /\ lineRendition = "DoubleWidth"
    /\ wrapForced
    /\ doubleBytePadded
    /\ rowWidth = Width

\* The blank row of the width the row has.
BlankRow == [data |-> Fill(rowWidth, UNICODE_SPACE), cwid |-> <<Run(1, rowWidth)>>, maxc |-> 0]

\* The second write of scenario 4 has returned: the wide glyph written at
\* column 3 of the ten-column row that was blank but for the wide glyph
\* written at column 2.
IsScenario4 ==
    /\ Wrote
    /\ rowWidth = 10
    /\ pre = Written(BlankRow, 2, 2, WideGlyph)
    /\ call.col = 3 /\ call.ncols = 2 /\ call.glyph = WideGlyph

\* What scenario 4 leaves apart from the text: column 2 a space, the glyph at
\* columns 3..4, cwid = [(1,3),(2,1),(1,5)].
Scenario4Columns ==
    /\ IsSpaceAt(data, cwid, 2)
    /\ GlyphAt(data, cwid, 3) = WideGlyph
    /\ GlyphAt(data, cwid, 4) = WideGlyph
    /\ DbcsAttrAt(data, cwid, 3) = "Leading"
    /\ DbcsAttrAt(data, cwid, 4) = "Trailing"
    /\ cwid = <<Run(1, 3), Run(2, 1), Run(1, 5)>>

\* C18 as stated: scenario 4 leaves column 2 a space, the glyph at columns
\* 3..4, cwid = [(1,3),(2,1),(1,5)] and the data three spaces, the glyph,
\* six spaces.
C18_Scenario4_AsStated ==
    IsScenario4 =>
        /\ Scenario4Columns
        /\ data = Fill(3, UNICODE_SPACE) \o WideGlyph \o Fill(6, UNICODE_SPACE)

\* C18: scenario 4 leaves column 2 a space, the glyph at columns 3..4,
\* cwid = [(1,3),(2,1),(1,5)] and the data three spaces, the glyph, five
\* spaces: nine code units for ten columns.
C18_Scenario4 ==
    IsScenario4 =>
        /\ Scenario4Columns
        /\ data = Fill(3, UNICODE_SPACE) \o WideGlyph \o Fill(5, UNICODE_SPACE)
        /\ Len(data) = 9
        /\ TotalColumns(cwid) = 10

C18_Witness == IsScenario4 /\ pre.cwid = <<Run(1, 2), Run(2, 1), Run(1, 6)>> /\ Len(data) = 9

\* C19: in every row reached from a blank row by writes of non-empty glyphs
\* of one column or more, the first code unit has a nonzero column value and
\* every run of zeros comes right after a run of a nonzero value; and the
\* code units [begin, begin+len) a write replaces start at the leader of the
\* glyph covering col, take in the leader of the last damaged glyph, and end
\* at the end of the text or right before a leader, so that no glyph is cut
\* between its leader and its trailers.
C19_TrailerStructure ==
    /\ Flat(cwid)[1] # 0
    /\ \A i \in 1..Len(cwid) :
          (cwid[i].value = 0) => (i > 1 /\ cwid[i - 1].value # 0)
    /\ Wrote =>
          LET v == Flat(pre.cwid)
              b == call.begin
              e == call.begin + call.len
          IN /\ call.len >= 1
             /\ b + 1 = LeaderAt(v, call.col)
             /\ v[b + 1] # 0
             /\ LeaderAt(v, call.col + call.ncols - 1) <= e
             /\ e <= Len(v)
             /\ (e = Len(v)) \/ (v[e + 1] # 0)

\* A write has replaced two glyphs with trailers, the second of them a wide
\* glyph it covers only in part, and text follows what it replaced.
C19_Witness ==
    /\ Wrote
    /\ LET v == Flat(pre.cwid)
           b == call.begin
           e == call.begin + call.len
           last == LeaderAt(v, call.col + call.ncols - 1)
       IN /\ last > b + 2
          /\ v[b + 2] = 0
          /\ last < e
          /\ v[e] = 0
          /\ v[last] >= 2
          /\ call.maxDamageColumnExclusive > call.col + call.ncols
          /\ e < Len(v)

\* A call of _indicesForCol has returned.
Looked == pc = "returned" /\ call.op = "IndicesForCol"

\* The number of zero-valued code units that directly follow code unit i.
TrailersAfter(v, i) ==
    CHOOSE n \in 0..(Len(v) - i) :
        /\ \A j \in 1..n : v[i + j] = 0
        /\ (i + n = Len(v)) \/ (v[i + n + 1] # 0)

\* C20: on every canonical cwid that keeps the trailer invariant, for a
\* column below the total column count _indicesForCol returns the index of
\* the leader of the glyph covering the column in the per-code-unit reading
\* of cwid, 1 + the number of zero-valued code units directly after that
\* leader, the column's offset from the glyph's first column and the
\* leader's value, so that the zeros after a run of several glyphs go to the
\* last glyph of the run only; for a column at or past the total it returns
\* (len(data), 0, 0, 0); and it reads no run past the end of the runs.
C20_LookupAgreesWithFlat ==
    Looked =>
        LET v == Flat(cwid)
            col == call.col
        IN /\ call.runsRead \subseteq 1..Len(cwid)
           /\ IF col < TotalColumns(cwid)
              THEN LET i == LeaderAt(v, col)
                   IN /\ call.ret.dataOffset = i - 1
                      /\ call.ret.dataLength = 1 + TrailersAfter(v, i)
                      /\ call.ret.columnOffsetWithinGlyph = col - StartCol(v, i)
                      /\ call.ret.numberOfColumns = v[i]
                      /\ (i < Len(v) /\ v[i + 1] # 0) => call.ret.dataLength = 1
              ELSE call.ret = [dataOffset |-> Len(data), dataLength |-> 0,
                               columnOffsetWithinGlyph |-> 0, numberOfColumns |-> 0]

\* The lookup hit the second column of the first of two wide glyphs of one
\* run that trailers follow, and gave that glyph its leader alone.
C20_Witness ==
    /\ Looked
    /\ Len(cwid) >= 2
    /\ cwid[1] = Run(2, 2)
    /\ cwid[2].value = 0
    /\ call.col = 1
    /\ call.ret = [dataOffset |-> 0, dataLength |-> 1,
                   columnOffsetWithinGlyph |-> 1, numberOfColumns |-> 2]

\* Column c lies outside the span of columns the returned write damaged.
OutsideDamage(c) == c < call.minDamageColumn \/ c >= call.maxDamageColumnExclusive

\* C21: a write leaves every column outside the damaged span
\* [minDamageColumn, maxDamageColumnExclusive) as it was: GlyphAt returns the
\* same code units and DbcsAttrAt the same class as before the call.
C21_TextFrame ==
    Wrote =>
        \A c \in 0..(Width - 1) :
            OutsideDamage(c) =>
                /\ GlyphAt(data, cwid, c) = GlyphAt(pre.data, pre.cwid, c)
                /\ DbcsAttrAt(data, cwid, c) = DbcsAttrAt(pre.data, pre.cwid, c)

\* A write changed the number of code units of the row, with a glyph of
\* trailers on its left and a wide glyph on its right, both outside the
\* damage and both as they were.
C21_Witness ==
    /\ Wrote
    /\ Len(data) # Len(pre.data)
    /\ \E c, e \in 0..(Width - 1) :
          /\ c < call.minDamageColumn
          /\ e >= call.maxDamageColumnExclusive
          /\ Len(GlyphAt(data, cwid, c)) >= 2
          /\ DbcsAttrAt(data, cwid, e) = "Trailing"
          /\ GlyphAt(data, cwid, c) = GlyphAt(pre.data, pre.cwid, c)
          /\ DbcsAttrAt(pre.data, pre.cwid, e) = "Trailing"

\* C22: in every row reached from a blank row by writes that fit, for every
\* column below the width GlyphAt is a non-empty view that lies inside data
\* and starts at a glyph leader; so the code unit DelimiterClassAt reads for
\* such a column is the first code unit of that view, a code unit of the
\* row's text.
C22_Materialized ==
    /\ \A col \in 0..(Width - 1) :
          LET lookup == IndicesForCol(data, cwid, col)
          IN /\ lookup.dataLength >= 1
             /\ GlyphAt(data, cwid, col) # <<>>
             /\ lookup.dataOffset + lookup.dataLength <= Len(data)
             /\ Flat(cwid)[lookup.dataOffset + 1] # 0
             /\ lookup.numberOfColumns >= 1
    /\ (Classified /\ call.col < Width) =>
          LET lookup == IndicesForCol(data, cwid, call.col)
          IN /\ lookup.dataOffset < Len(data)
             /\ call.read = <<data[lookup.dataOffset + 1]>>

\* The last column of a row shortened by wide glyphs has been classified: the
\* code unit read is the last of the text, a trailer's leader before it.
C22_Witness ==
    /\ Classified
    /\ call.col = Width - 1
    /\ Len(data) < Width
    /\ IndicesForCol(data, cwid, call.col).dataOffset = Len(data) - 1
    /\ call.read = <<data[Len(data)]>>
    /\ call.ret = "RegularChar"
    /\ \E i \in 1..Len(cwid) : cwid[i].value = 0

\* C23: for every column at or past the total number of columns of the row,
\* where the lookup finds numberOfColumns = 0, DbcsAttrAt is Single, never
\* Leading or Trailing.
C23_PastEndIsSingle ==
    (pc = "returned" /\ call.op = "DbcsAttrAt" /\ call.numberOfColumns = 0) =>
        call.ret = "Single"

\* C24: whenever a pass of run()'s event loop reads a batch of input records
\* successfully and writes every byte made from its key-down records to the
\* pipe in full, the pass ends at its break, from where the loop waits for
\* the next event, and run() does not return, whatever other records the
\* batch held.
C24_ForwardingContinues ==
    (/\ batch.op = "input"
     /\ batch.readOk
     /\ Len(batch.records) >= 1
     /\ batch.resize # "failed"
     /\ batch.write = 0 \/ (batch.writeOk /\ batch.written = batch.write))
        => tpc = "break"

\* C25: when wmain returns, after run() returned or threw, every console
\* setting it changed at startup has the value saved before the change, and
\* the exit code is the exception's error code, or 0 without an exception.
C25_ConsoleRestored ==
    tpc = "exited" =>
        /\ inputMode = previousInputMode
        /\ outputMode = previousOutputMode
        /\ inputCP = previousInputCP
        /\ outputCP = previousOutputCP
        /\ exitCode = (IF thrown = NoException THEN 0 ELSE thrown)

====
